---- MODULE Spec2Model ----
(***************************************************************************)
(* Model of the whatsapp-agent content pipeline: MessageFilter             *)
(* (src/src/modules/filter/MessageFilter.ts), ContentExtractor             *)
(* (src/src/modules/extractor/ContentExtractor.ts), ContentClassifier      *)
(* (src/unnamed/part_002) and SchoolChatSummarizer                         *)
(* (src/src/SchoolChatSummarizer.ts).                                      *)
(*                                                                         *)
(* JavaScript values that the code inspects with typeof / truthiness are   *)
(* tagged records [t |-> type, v |-> string].  Timestamps are strings; the *)
(* Date constructor is the table DateTable (milliseconds counted from      *)
(* 2025-01-15T00:00:00.000Z so that they fit TLC's integers).              *)
(***************************************************************************)
EXTENDS Integers, Sequences, FiniteSets, TLC

VARIABLES
  options,     \* MessageFilter.options  (enableCache, cacheSize)
  cache,       \* MessageFilter.cache    (Map keys in insertion order)
  input,       \* argument of the current / last filter call
  result,      \* what the last operation on the filter gave its caller
  locals,      \* the locals of the last filter call (stage outputs)
  message,     \* argument of classifyMessage: raw text, as pieces
  classified,  \* what classifyMessage returned
  batch,       \* argument of ContentClassifier.classifyMessages
  results,     \* what classifyMessages gave its caller
  raw,         \* a text handed to normalizeText, as characters
  normalized,  \* the results of normalizeText applied again and again to raw
  summarizer,  \* SchoolChatSummarizer: options and stats; its messageFilter is
               \* the filter of the variables options and cache
  calls,       \* the process calls: of each its argument, its position, what
               \* it awaits
  microtasks,  \* the process calls whose continuation is queued, oldest first
  now,         \* the day new Date() gives, counted from 1 January 2025 (day 0)
  parsed       \* what parseRelativeDate returned for a matched phrase

vars == <<options, cache, input, result, locals, message, classified, batch, results,
          raw, normalized, summarizer, calls, microtasks, now, parsed>>

filterVars == <<options, cache, input, result, locals>>
classifierVars == <<message, classified, batch, results>>
normalizerVars == <<raw, normalized>>
summarizerVars == <<summarizer, calls, microtasks>>

\* the process calls of one instance, and the first of them
CallIds == {1, 2}
call == calls[1]

(***************************************************************************)
(* Bounds                                                                  *)
(***************************************************************************)
MaxMsgs == 3      \* longest message list of a single filter call (SpecFilterOnce)
MaxBatch == 2     \* longest message list in the instance life cycle (Spec)
MaxWords == 5     \* longest text, in words, given to classifyMessage
MaxScheduleWords == 4   \* words of a text about a change of schedule
MaxWeeks == 2           \* weeks the day of new Date() ranges over
MaxRepeatBatch == 2     \* messages of an input when process is called twice
MaxElapsed == 1         \* largest Date.now() - startTime, in milliseconds
MaxChars == 5     \* longest text, in characters, given to normalizeText

(***************************************************************************)
(* JavaScript values                                                       *)
(***************************************************************************)
Str(s) == [t |-> "string", v |-> s]
Undefined == [t |-> "undefined", v |-> ""]
Num(s) == [t |-> "number", v |-> s]

\* !x is false: x is a non-empty string or a non-zero number
Truthy(x) ==
  CASE x.t = "string" -> x.v # ""
    [] x.t = "number" -> x.v \notin {"0", "NaN"}
    [] OTHER -> FALSE

TypeofString(x) == x.t = "string"

(***************************************************************************)
(* Date: new Date(s).getTime() and Date.prototype.toISOString              *)
(***************************************************************************)
NaN == -1

T08 == "2025-01-15T08:00:00.000Z"
T09 == "2025-01-15T09:00:00.000Z"
T10 == "2025-01-15T10:00:00.000Z"
T11 == "2025-01-15T11:00:00.000Z"
T10short == "2025-01-15T10:00:00Z"      \* parses, but is not what toISOString prints
TGarbage == "not-a-date"                \* Invalid Date

DateTable ==
  [s \in {T08, T09, T10, T11, T10short} |->
     CASE s = T08 -> 28800000
       [] s = T09 -> 32400000
       [] s = T10 -> 36000000
       [] s = T11 -> 39600000
       [] s = T10short -> 36000000]

DateGetTime(s) == IF s \in DOMAIN DateTable THEN DateTable[s] ELSE NaN

isNaN(n) == n = NaN

toISOString(ms) ==
  CASE ms = 28800000 -> T08
    [] ms = 32400000 -> T09
    [] ms = 36000000 -> T10
    [] ms = 39600000 -> T11

(***************************************************************************)
(* MessageFilter                                                           *)
(***************************************************************************)
Message(chat, sender, ts, txt, extra) ==
  [chat_id |-> chat, sender_id |-> sender, timestamp |-> ts, text |-> txt,
   extra |-> extra]

NoValue == [kind |-> "none"]

Thrown(op, msg) == [op |-> op, outcome |-> "thrown", error |-> msg, value |-> NoValue]
Returned(op, val) == [op |-> op, outcome |-> "returned", error |-> "", value |-> val]
NoCall == [op |-> "none", outcome |-> "none", error |-> "", value |-> NoValue]

NoLocals == [subscribedMessages |-> <<>>, timeFilteredMessages |-> <<>>]

Range(s) == {s[i] : i \in 1..Len(s)}

isValidTimestamp(timestamp) ==
  IF ~Truthy(timestamp) \/ ~TypeofString(timestamp)
  THEN FALSE
  ELSE LET date == DateGetTime(timestamp.v)
       IN ~isNaN(date) /\ toISOString(date) = timestamp.v

\* the error thrown for one message, "" when the message passes
validateMessage(m) ==
  CASE ~Truthy(m.chat_id) \/ ~TypeofString(m.chat_id) ->
         "Each message must have a valid chat_id string"
    [] ~Truthy(m.sender_id) \/ ~TypeofString(m.sender_id) ->
         "Each message must have a valid sender_id string"
    [] ~Truthy(m.timestamp) \/ ~isValidTimestamp(m.timestamp) ->
         "Each message must have a valid ISO-8601 timestamp"
    [] ~TypeofString(m.text) ->
         "Each message must have a text property of type string"
    [] OTHER -> ""

RECURSIVE validateMessages(_, _)
validateMessages(messages, i) ==
  IF i > Len(messages) THEN ""
  ELSE LET e == validateMessage(messages[i])
       IN IF e # "" THEN e ELSE validateMessages(messages, i + 1)

\* validateInput that accepts an empty period (start = end)
validateInput_strictGreater(in) ==
  CASE ~isValidTimestamp(in.period.start) ->
         "Period start must be a valid ISO-8601 timestamp"
    [] ~isValidTimestamp(in.period.end) ->
         "Period end must be a valid ISO-8601 timestamp"
    [] DateGetTime(in.period.start.v) > DateGetTime(in.period.end.v) ->
         "Period start must be before period end"
    [] OTHER -> validateMessages(in.messages, 1)

\* validateInput that stops at the first message instead of checking them all
validateInput_firstMessageOnly(in) ==
  CASE ~isValidTimestamp(in.period.start) ->
         "Period start must be a valid ISO-8601 timestamp"
    [] ~isValidTimestamp(in.period.end) ->
         "Period end must be a valid ISO-8601 timestamp"
    [] DateGetTime(in.period.start.v) >= DateGetTime(in.period.end.v) ->
         "Period start must be before period end"
    [] OTHER -> IF in.messages = <<>> THEN "" ELSE validateMessage(in.messages[1])

\* the error validateInput throws, "" when it returns.  Every modelled input
\* is an object with two arrays and a period object, so the checks that come
\* before the period timestamps pass.
validateInput(in) ==
  CASE ~isValidTimestamp(in.period.start) ->
         "Period start must be a valid ISO-8601 timestamp"
    [] ~isValidTimestamp(in.period.end) ->
         "Period end must be a valid ISO-8601 timestamp"
    [] DateGetTime(in.period.start.v) >= DateGetTime(in.period.end.v) ->
         "Period start must be before period end"
    [] OTHER -> validateMessages(in.messages, 1)

\* isMessageInPeriod with a closed window
isMessageInPeriod_inclusiveEnd(m, period) ==
  LET messageDate == DateGetTime(m.timestamp.v)
      startDate == DateGetTime(period.start.v)
      endDate == DateGetTime(period.end.v)
  IN messageDate >= startDate /\ messageDate <= endDate

isMessageInPeriod(m, period) ==
  LET messageDate == DateGetTime(m.timestamp.v)
      startDate == DateGetTime(period.start.v)
      endDate == DateGetTime(period.end.v)
  IN messageDate >= startDate /\ messageDate < endDate

\* getMessageKey that records every new key, whatever the size of the cache
getMessageKey_unbounded(this, m) ==
  LET key == m.chat_id.v \o ":" \o m.sender_id.v \o ":" \o m.timestamp.v
               \o ":" \o m.text.v
  IN [key |-> key,
      cache |-> IF this.options.enableCache /\ key \notin Range(this.cache)
                THEN Append(this.cache, key)
                ELSE this.cache]

\* getMessageKey that records a key while the cache holds at most cacheSize keys
getMessageKey_sizeAtMost(this, m) ==
  LET key == m.chat_id.v \o ":" \o m.sender_id.v \o ":" \o m.timestamp.v
               \o ":" \o m.text.v
  IN [key |-> key,
      cache |-> IF this.options.enableCache
                   /\ Len(this.cache) <= this.options.cacheSize
                   /\ key \notin Range(this.cache)
                THEN Append(this.cache, key)
                ELSE this.cache]

\* getMessageKey that makes room in a full cache by dropping the oldest key
getMessageKey_evictOldest(this, m) ==
  LET key == m.chat_id.v \o ":" \o m.sender_id.v \o ":" \o m.timestamp.v
               \o ":" \o m.text.v
  IN [key |-> key,
      cache |-> IF this.options.enableCache /\ key \notin Range(this.cache)
                THEN IF Len(this.cache) < this.options.cacheSize
                     THEN Append(this.cache, key)
                     ELSE IF this.cache = <<>> THEN this.cache
                     ELSE Append(Tail(this.cache), key)
                ELSE this.cache]

\* returns the key and the cache after the call
getMessageKey(this, m) ==
  LET key == m.chat_id.v \o ":" \o m.sender_id.v \o ":" \o m.timestamp.v
               \o ":" \o m.text.v
  IN [key |-> key,
      cache |-> IF this.options.enableCache
                   /\ Len(this.cache) < this.options.cacheSize
                   /\ key \notin Range(this.cache)
                THEN Append(this.cache, key)
                ELSE this.cache]

\* removeDuplicates that unshifts instead of pushing
RECURSIVE removeDuplicatesLoop_unshift(_, _, _, _, _)
removeDuplicatesLoop_unshift(this, messages, i, seen, uniqueMessages) ==
  IF i > Len(messages)
  THEN [messages |-> uniqueMessages, cache |-> this.cache]
  ELSE LET k == getMessageKey(this, messages[i])
           this2 == [this EXCEPT !.cache = k.cache]
       IN IF k.key \notin seen
          THEN removeDuplicatesLoop_unshift(this2, messages, i + 1, seen \cup {k.key},
                                            <<messages[i]>> \o uniqueMessages)
          ELSE removeDuplicatesLoop_unshift(this2, messages, i + 1, seen, uniqueMessages)

RECURSIVE removeDuplicatesLoop(_, _, _, _, _)
removeDuplicatesLoop(this, messages, i, seen, uniqueMessages) ==
  IF i > Len(messages)
  THEN [messages |-> uniqueMessages, cache |-> this.cache]
  ELSE LET k == getMessageKey(this, messages[i])
           this2 == [this EXCEPT !.cache = k.cache]
       IN IF k.key \notin seen
          THEN removeDuplicatesLoop(this2, messages, i + 1, seen \cup {k.key},
                                    Append(uniqueMessages, messages[i]))
          ELSE removeDuplicatesLoop(this2, messages, i + 1, seen, uniqueMessages)

\* removeDuplicates that takes the cached keys as already seen
removeDuplicates_seenFromCache(this, messages) ==
  removeDuplicatesLoop(this, messages, 1, Range(this.cache), <<>>)

removeDuplicates(this, messages) ==
  removeDuplicatesLoop(this, messages, 1, {}, <<>>)

\* Array.prototype.filter
ArrayFilter(s, Keep(_)) ==
  LET F[i \in 0..Len(s)] ==
        IF i = 0 THEN <<>>
        ELSE IF Keep(s[i]) THEN Append(F[i - 1], s[i]) ELSE F[i - 1]
  IN F[Len(s)]

\* filter that counts as duplicates all the messages it does not return
filter_duplicatesFromInput(this, in) ==
  LET err == validateInput(in)
  IN IF err # ""
     THEN [result |-> Thrown("filter", err), cache |-> this.cache, locals |-> NoLocals]
     ELSE
       LET subscribedChatsSet == Range(in.subscribed_chats)
           IsSubscribed(m) == m.chat_id.v \in subscribedChatsSet
           subscribedMessages == ArrayFilter(in.messages, IsSubscribed)
           InPeriod(m) == isMessageInPeriod(m, in.period)
           timeFilteredMessages == ArrayFilter(subscribedMessages, InPeriod)
           u == removeDuplicates(this, timeFilteredMessages)
           stats ==
             [totalProcessed |-> Len(in.messages),
              filteredBySubscription |-> Len(in.messages) - Len(subscribedMessages),
              filteredByTimePeriod |-> Len(subscribedMessages) - Len(timeFilteredMessages),
              duplicatesRemoved |-> Len(in.messages) - Len(u.messages),
              finalCount |-> Len(u.messages)]
       IN [result |-> Returned("filter",
                        [kind |-> "FilterResult", messages |-> u.messages, stats |-> stats]),
           cache |-> u.cache,
           locals |-> [subscribedMessages |-> subscribedMessages,
                       timeFilteredMessages |-> timeFilteredMessages]]

\* filter that applies the time window before the subscription
filter_timeBeforeSubscription(this, in) ==
  LET err == validateInput(in)
  IN IF err # ""
     THEN [result |-> Thrown("filter", err), cache |-> this.cache, locals |-> NoLocals]
     ELSE
       LET subscribedChatsSet == Range(in.subscribed_chats)
           IsSubscribed(m) == m.chat_id.v \in subscribedChatsSet
           InPeriod(m) == isMessageInPeriod(m, in.period)
           timeFilteredMessages == ArrayFilter(in.messages, InPeriod)
           subscribedMessages == ArrayFilter(timeFilteredMessages, IsSubscribed)
           u == removeDuplicates(this, subscribedMessages)
           stats ==
             [totalProcessed |-> Len(in.messages),
              filteredBySubscription |-> Len(timeFilteredMessages) - Len(subscribedMessages),
              filteredByTimePeriod |-> Len(in.messages) - Len(timeFilteredMessages),
              duplicatesRemoved |-> Len(subscribedMessages) - Len(u.messages),
              finalCount |-> Len(u.messages)]
       IN [result |-> Returned("filter",
                        [kind |-> "FilterResult", messages |-> u.messages, stats |-> stats]),
           cache |-> u.cache,
           locals |-> [subscribedMessages |-> subscribedMessages,
                       timeFilteredMessages |-> subscribedMessages]]

filter(this, in) ==
  LET err == validateInput(in)
  IN IF err # ""
     THEN [result |-> Thrown("filter", err), cache |-> this.cache, locals |-> NoLocals]
     ELSE
       LET subscribedChatsSet == Range(in.subscribed_chats)
           IsSubscribed(m) == m.chat_id.v \in subscribedChatsSet
           subscribedMessages == ArrayFilter(in.messages, IsSubscribed)
           InPeriod(m) == isMessageInPeriod(m, in.period)
           timeFilteredMessages == ArrayFilter(subscribedMessages, InPeriod)
           u == removeDuplicates(this, timeFilteredMessages)
           stats ==
             [totalProcessed |-> Len(in.messages),
              filteredBySubscription |-> Len(in.messages) - Len(subscribedMessages),
              filteredByTimePeriod |-> Len(subscribedMessages) - Len(timeFilteredMessages),
              duplicatesRemoved |-> Len(timeFilteredMessages) - Len(u.messages),
              finalCount |-> Len(u.messages)]
       IN [result |-> Returned("filter",
                        [kind |-> "FilterResult", messages |-> u.messages, stats |-> stats]),
           cache |-> u.cache,
           locals |-> [subscribedMessages |-> subscribedMessages,
                       timeFilteredMessages |-> timeFilteredMessages]]

(***************************************************************************)
(* Text.  A text is a sequence of pieces: a piece is a word (a run of      *)
(* characters that are not whitespace) or one whitespace character; the    *)
(* texts given to normalizeText alone are sequences of characters.  The    *)
(* expressions of the source are modelled on the words of the text: an     *)
(* alternative of a \b(...)\b pattern is a phrase, a sequence of words     *)
(* that has to occur contiguously.  Only the ASCII alternatives of the     *)
(* patterns are listed; the modelled texts hold no other characters.       *)
(*                                                                         *)
(* Scores are exact rationals [n, d] standing for n/d; the weights are     *)
(* tenths.  On the sums that ASCII texts can produce, the comparisons with *)
(* the thresholds 0.1, 0.4 and 0.6 come out as they do on IEEE doubles.    *)
(***************************************************************************)
IsSpace(p) == p \in {" ", "\n", "\t"}

WordsOf(t) ==
  LET F[i \in 0..Len(t)] ==
        IF i = 0 THEN <<>>
        ELSE IF IsSpace(t[i]) THEN F[i - 1] ELSE Append(F[i - 1], t[i])
  IN F[Len(t)]

\* String.prototype.replace(/\s\s/g, ' '): pairs of whitespace characters
RECURSIVE CollapseWhitespace_pairs(_)
CollapseWhitespace_pairs(t) ==
  IF t = <<>> THEN <<>>
  ELSE IF Len(t) >= 2 /\ IsSpace(t[1]) /\ IsSpace(t[2])
       THEN <<" ">> \o CollapseWhitespace_pairs(SubSeq(t, 3, Len(t)))
       ELSE <<t[1]>> \o CollapseWhitespace_pairs(Tail(t))

\* String.prototype.replace(/\s+/g, ' ')
CollapseWhitespace(t) ==
  LET F[i \in 0..Len(t)] ==
        IF i = 0 THEN <<>>
        ELSE IF IsSpace(t[i])
             THEN IF i > 1 /\ IsSpace(t[i - 1]) THEN F[i - 1] ELSE Append(F[i - 1], " ")
             ELSE Append(F[i - 1], t[i])
  IN F[Len(t)]

\* String.prototype.replace(/\n+/g, ' ')
ReplaceNewlines(t) ==
  LET F[i \in 0..Len(t)] ==
        IF i = 0 THEN <<>>
        ELSE IF t[i] = "\n"
             THEN IF i > 1 /\ t[i - 1] = "\n" THEN F[i - 1] ELSE Append(F[i - 1], " ")
             ELSE Append(F[i - 1], t[i])
  IN F[Len(t)]

RECURSIVE TrimStart(_)
TrimStart(t) == IF t # <<>> /\ IsSpace(Head(t)) THEN TrimStart(Tail(t)) ELSE t

RECURSIVE TrimEnd(_)
TrimEnd(t) ==
  IF t # <<>> /\ IsSpace(t[Len(t)]) THEN TrimEnd(SubSeq(t, 1, Len(t) - 1)) ELSE t

\* String.prototype.trim
Trim(t) == TrimEnd(TrimStart(t))

\* String.prototype.replace(/["\"]/g, '"'): the character class of the source
\* holds the ASCII quotation mark twice, and no typographic quotation mark
ReplaceQuotes(t) == [i \in 1..Len(t) |-> IF t[i] \in {"\"", "\""} THEN "\"" ELSE t[i]]

\* String.prototype.replace(/['']/g, "'"), likewise on the ASCII apostrophe
ReplaceApostrophes(t) == [i \in 1..Len(t) |-> IF t[i] \in {"'", "'"} THEN "'" ELSE t[i]]

normalizeText(t) ==
  Trim(ReplaceApostrophes(ReplaceQuotes(ReplaceNewlines(CollapseWhitespace(t)))))

\* String.prototype.toLowerCase, on words
toLowerCase(w) ==
  CASE w = "The" -> "the"
    [] w = "Due" -> "due"
    [] w = "PE" -> "pe"
    [] w = "Hi" -> "hi"
    [] w = "Happy" -> "happy"
    [] w = "Sarah" -> "sarah"
    [] OTHER -> w

ABBREVIATIONS ==
  [a \in {"hw", "pgs", "pg", "ch", "ex", "q", "asap", "tmrw", "tmr", "thx", "pls",
          "plz", "u", "ur", "r", "b4", "2day", "2morrow", "2mrw"} |->
     CASE a = "hw" -> <<"homework">>
       [] a = "pgs" -> <<"pages">>
       [] a = "pg" -> <<"page">>
       [] a = "ch" -> <<"chapter">>
       [] a = "ex" -> <<"exercise">>
       [] a = "q" -> <<"question">>
       [] a = "asap" -> <<"as", " ", "soon", " ", "as", " ", "possible">>
       [] a \in {"tmrw", "tmr", "2morrow", "2mrw"} -> <<"tomorrow">>
       [] a = "thx" -> <<"thanks">>
       [] a \in {"pls", "plz"} -> <<"please">>
       [] a = "u" -> <<"you">>
       [] a = "ur" -> <<"your">>
       [] a = "r" -> <<"are">>
       [] a = "b4" -> <<"before">>
       [] a = "2day" -> <<"today">>]

\* every whole word that is an abbreviation (in any case) becomes its expansion
expandAbbreviations(t) ==
  LET F[i \in 0..Len(t)] ==
        IF i = 0 THEN <<>>
        ELSE IF toLowerCase(t[i]) \in DOMAIN ABBREVIATIONS
             THEN F[i - 1] \o ABBREVIATIONS[toLowerCase(t[i])]
             ELSE Append(F[i - 1], t[i])
  IN F[Len(t)]

\* the processedText of extractContent
extractContent(t) == expandAbbreviations(normalizeText(t))

\* RegExp.prototype.test of a case-insensitive \b(p1|p2|...)\b pattern
ContainsPhrase(ws, ph) ==
  \E i \in 1..(Len(ws) - Len(ph) + 1) :
    \A k \in 1..Len(ph) : toLowerCase(ws[i + k - 1]) = ph[k]

Test(phrases, t) == \E ph \in phrases : ContainsPhrase(WordsOf(t), ph)

\* tokens that begin with digits, and tokens of the form D/M, D.M, H:MM
DigitTokens == {"5", "45", "10"}
NumericDateTokens == {"25/12", "25.12", "26/12"}
ClockTokens == {"10:30"}

\* a pattern of the form \b(w1|w2)\s*(\d+...)
TestFollowedByNumber(heads, t) ==
  LET ws == WordsOf(t)
  IN \E i \in 1..(Len(ws) - 1) : toLowerCase(ws[i]) \in heads /\ ws[i + 1] \in DigitTokens

HOMEWORK_PATTERNS_keywords ==
  {<<"homework">>, <<"assignment">>, <<"exercise">>, <<"project">>, <<"quiz">>,
   <<"test">>, <<"exam">>, <<"pages">>, <<"chapter">>, <<"read">>, <<"write">>,
   <<"complete">>, <<"solve">>, <<"prepare">>, <<"submit">>, <<"due">>, <<"deadline">>}

SCHEDULE_PATTERNS_keywords ==
  {<<"changed">>, <<"moved">>, <<"cancelled">>, <<"canceled">>, <<"postponed">>,
   <<"rescheduled">>, <<"new", "time">>, <<"new", "location">>, <<"instead", "of">>}

SCHEDULE_PATTERNS_timeChange ==
  {<<"time", "changed">>, <<"new", "time">>, <<"moved", "to">>, <<"rescheduled", "to">>}

SCHEDULE_PATTERNS_cancellation ==
  {<<"cancelled">>, <<"canceled">>, <<"no", "class">>, <<"class", "cancelled">>}

SCHEDULE_PATTERNS_locationChange ==
  {<<"room">>, <<"location">>, <<"place">>, <<"moved", "to", "room">>}

ANNOUNCEMENT_PATTERNS_event ==
  {<<"event">>, <<"field", "trip">>, <<"ceremony">>, <<"performance">>, <<"party">>,
   <<"meeting">>}

ANNOUNCEMENT_PATTERNS_permissionSlip ==
  {<<"permission", "slip">>, <<"form">>, <<"signature">>, <<"sign">>, <<"return">>}

ANNOUNCEMENT_PATTERNS_urgent ==
  {<<"urgent">>, <<"important">>, <<"attention">>, <<"immediately">>, <<"asap">>}

\* "don't forget" holds an apostrophe and is outside the modelled words
ANNOUNCEMENT_PATTERNS_reminder == {<<"reminder">>, <<"remember">>}

STOP_WORDS ==
  {"the", "a", "an", "and", "or", "but", "in", "on", "at", "to", "for",
   "of", "with", "by", "from", "about", "as", "is", "was", "are", "were",
   "been", "be", "have", "has", "had", "do", "does", "did", "will", "would",
   "should", "could", "may", "might", "must", "can", "this", "that", "these",
   "those", "i", "you", "he", "she", "it", "we", "they", "what", "which",
   "who", "when", "where", "why", "how", "all", "each", "every", "some",
   "few", "more", "most", "other", "such", "only", "own", "so", "than",
   "too", "very", "just", "now"}

\* DATE_PATTERNS.relative: today|tomorrow|yesterday|next\s+\w+|this\s+\w+
TestRelativeDate(t) ==
  LET ws == WordsOf(t)
  IN \/ \E i \in 1..Len(ws) : toLowerCase(ws[i]) \in {"today", "tomorrow", "yesterday"}
     \/ \E i \in 1..(Len(ws) - 1) : toLowerCase(ws[i]) \in {"next", "this"}

\* DATE_PATTERNS.numeric
TestNumericDate(t) == \E i \in 1..Len(t) : t[i] \in NumericDateTokens

\* /[!]/ : no modelled piece holds an exclamation mark
TestExclamation(t) == \E i \in 1..Len(t) : t[i] = "!"

\* String.prototype.split(/\s+/) of the lower-cased text
Split(t) ==
  IF t = <<>> THEN <<"">>
  ELSE (IF IsSpace(t[1]) THEN <<"">> ELSE <<>>)
       \o [i \in 1..Len(WordsOf(t)) |-> toLowerCase(WordsOf(t)[i])]
       \o (IF IsSpace(t[Len(t)]) THEN <<"">> ELSE <<>>)

Rat(n, d) == [n |-> n, d |-> d]
Tenths(k) == Rat(k, 10)
AddTenths(r, k) == Rat(r.n + k * (r.d \div 10), r.d)
Less(a, b) == a.n * b.d < b.n * a.d
\* Math.min(score, 1.0)
MinOne(r) == IF r.n > r.d THEN Rat(r.d, r.d) ELSE r

Weight(cond, k) == IF cond THEN k ELSE 0

calculateImportance(t) ==
  LET words == Split(t)
      contentWords == ArrayFilter(words, LAMBDA w : w \notin STOP_WORDS)
  IN IF Len(contentWords) = 0 THEN Rat(0, 10)
     ELSE LET base == Rat(10 * Len(contentWords), 10 * Len(words))
              boost == Weight(Test(HOMEWORK_PATTERNS_keywords, t), 3)
                       + Weight(TestNumericDate(t) \/ TestRelativeDate(t), 2)
                       + Weight(TestExclamation(t), 1)
                       + Weight(Test({<<"urgent">>, <<"important">>}, t), 4)
          IN MinOne(AddTenths(base, boost))

calculateHomeworkScore(t) ==
  LET actionWords == {<<"complete">>, <<"finish">>, <<"solve">>, <<"write">>, <<"read">>,
                      <<"prepare">>, <<"submit">>, <<"do">>, <<"make">>}
      dueDateIndicators == {<<"due">>, <<"deadline">>, <<"by">>, <<"until">>, <<"before">>,
                            <<"submit", "by">>}
      score == Weight(Test(HOMEWORK_PATTERNS_keywords, t), 5)
               + Weight(TestFollowedByNumber({"page", "pages"}, t), 3)
               + Weight(TestFollowedByNumber({"exercise"}, t), 3)
               + Weight(TestFollowedByNumber({"chapter"}, t), 2)
               + Weight(Test(actionWords, t), 2)
               + Weight(Test(dueDateIndicators, t), 2)
  IN MinOne(Tenths(score))

calculateScheduleChangeScore(t) ==
  LET timeReference == {<<"morning">>, <<"afternoon">>, <<"evening">>}
      dayReference == {<<"monday">>, <<"tuesday">>, <<"wednesday">>, <<"thursday">>,
                       <<"friday">>, <<"saturday">>, <<"sunday">>}
      score == Weight(Test(SCHEDULE_PATTERNS_keywords, t), 5)
               + Weight(Test(SCHEDULE_PATTERNS_timeChange, t), 4)
               + Weight(Test(SCHEDULE_PATTERNS_cancellation, t), 5)
               + Weight(Test(SCHEDULE_PATTERNS_locationChange, t), 3)
               + Weight(Test(timeReference, t) \/ (\E i \in 1..Len(t) : t[i] \in ClockTokens), 2)
               + Weight(Test(dayReference, t), 2)
  IN MinOne(Tenths(score))

\* calculateAnnouncementScore without the cap at 1.0
calculateAnnouncementScore_noCap(t, baseImportance) ==
  LET infoIndicators == {<<"please", "note">>, <<"attention">>, <<"important">>,
                         <<"for", "your", "information">>, <<"fyi">>}
      add == Weight(Test(ANNOUNCEMENT_PATTERNS_event, t), 3)
             + Weight(Test(ANNOUNCEMENT_PATTERNS_permissionSlip, t), 4)
             + Weight(Test(ANNOUNCEMENT_PATTERNS_urgent, t), 3)
             + Weight(Test(ANNOUNCEMENT_PATTERNS_reminder, t), 2)
             + Weight(Test(infoIndicators, t), 2)
  IN AddTenths(baseImportance, add)

calculateAnnouncementScore(t, baseImportance) ==
  LET infoIndicators == {<<"please", "note">>, <<"attention">>, <<"important">>,
                         <<"for", "your", "information">>, <<"fyi">>}
      add == Weight(Test(ANNOUNCEMENT_PATTERNS_event, t), 3)
             + Weight(Test(ANNOUNCEMENT_PATTERNS_permissionSlip, t), 4)
             + Weight(Test(ANNOUNCEMENT_PATTERNS_urgent, t), 3)
             + Weight(Test(ANNOUNCEMENT_PATTERNS_reminder, t), 2)
             + Weight(Test(infoIndicators, t), 2)
  IN MinOne(AddTenths(baseImportance, add))

Null == [kind |-> "null"]

detectChangeType(t) ==
  IF Test(SCHEDULE_PATTERNS_cancellation, t) THEN "cancellation"
  ELSE IF Test(SCHEDULE_PATTERNS_locationChange, t) THEN "location_change"
  ELSE IF Test(SCHEDULE_PATTERNS_timeChange, t) THEN "time_change"
  ELSE "reschedule"

(***************************************************************************)
(* Dates.  A Date of extractDates is a day, counted from 1 January 2025,   *)
(* a Wednesday, which is day 0; new Date() gives the day of the variable   *)
(* now.  A function that returns Date | null returns <<d>> or <<>>.        *)
(***************************************************************************)
\* Date.prototype.getDay: 0 is Sunday, 6 is Saturday
getDay(date) == (date + 3) % 7

\* the characters of a word that \w+ matches from its start
WordPrefix(w) ==
  CASE w \in {"25/12", "25.12"} -> "25"
    [] w = "26/12" -> "26"
    [] w = "10:30" -> "10"
    [] w = "rain." -> "rain"
    [] OTHER -> w

\* String.prototype.includes for a word, and for a phrase of two words, on a
\* match of DATE_PATTERNS.relative, which is one word or two
Includes(text, phrase) == \E i \in 1..(Len(text) - Len(phrase) + 1) :
                            \A k \in 1..Len(phrase) : text[i + k - 1] = phrase[k]

parseRelativeDate(text, baseDate) ==
  IF Includes(text, <<"today">>) THEN <<baseDate>>
  ELSE IF Includes(text, <<"tomorrow">>) THEN <<baseDate + 1>>
  ELSE IF Includes(text, <<"yesterday">>) THEN <<baseDate - 1>>
  ELSE IF Includes(text, <<"next", "week">>) THEN <<baseDate + 7>>
  ELSE IF Includes(text, <<"this", "week">>)
    THEN LET dayOfWeek == getDay(baseDate)
             daysUntilFriday == (5 - dayOfWeek + 7) % 7
         IN <<baseDate + daysUntilFriday>>
  ELSE <<>>

\* parseNumericDate on the tokens of NumericDateTokens: day first, no year,
\* so the day of the current year
parseNumericDate(token) ==
  CASE token \in {"25/12", "25.12"} -> <<358>>
    [] token = "26/12" -> <<359>>
    [] OTHER -> <<>>

\* text.match(DATE_PATTERNS.relative): the leftmost match, lower-cased as
\* parseRelativeDate does, <<>> when there is none
RelativeMatch(t) ==
  LET ws == WordsOf(t)
      At(i) == LET w == toLowerCase(ws[i])
               IN IF w \in {"today", "tomorrow", "yesterday"} THEN <<w>>
                  ELSE IF w \in {"next", "this"} /\ i < Len(ws)
                    THEN <<w, toLowerCase(WordPrefix(ws[i + 1]))>>
                  ELSE <<>>
      F[i \in 1..(Len(ws) + 1)] ==
        IF i > Len(ws) THEN <<>>
        ELSE IF At(i) # <<>> THEN At(i) ELSE F[i + 1]
  IN F[1]

\* extractDates: match without the g flag gives the array of the whole match
\* and of its one group, the same string twice, and the loop parses both;
\* then the numeric dates in the order of the text.  No word of the texts is
\* the name of a month, so DATE_PATTERNS.textual matches nothing.
extractDates(t) ==
  LET relativeMatch == RelativeMatch(t)
      relative == IF relativeMatch = <<>> THEN <<>>
                  ELSE parseRelativeDate(relativeMatch, now)
                         \o parseRelativeDate(relativeMatch, now)
      ws == WordsOf(t)
      N[i \in 0..Len(ws)] ==
        IF i = 0 THEN <<>> ELSE N[i - 1] \o parseNumericDate(ws[i])
  IN relative \o N[Len(ws)]

\* processedText.match(/\b(?:room|class)\s*(\w+)/i): the group of the leftmost
\* match, <<>> when there is none
LocationMatch(t) ==
  LET ws == WordsOf(t)
      F[i \in 1..(Len(ws) + 1)] ==
        IF i >= Len(ws) THEN <<>>
        ELSE IF toLowerCase(ws[i]) \in {"room", "class"} THEN <<WordPrefix(ws[i + 1])>>
        ELSE F[i + 1]
  IN F[1]

\* createScheduleChangeItem that takes the first two dates whatever the
\* change is
createScheduleChangeItem_anyChange(processedText, dates) ==
  LET changeType == detectChangeType(processedText)
      base == [change_type |-> changeType]
      timed == IF Len(dates) >= 2
                 THEN base @@ [original_time |-> dates[1], new_time |-> dates[2]]
               ELSE IF Len(dates) > 0 THEN base @@ [new_time |-> dates[1]]
               ELSE base
      locationMatch == LocationMatch(processedText)
  IN IF changeType = "location_change" /\ locationMatch # <<>>
     THEN timed @@ [new_location |-> locationMatch[1]]
     ELSE timed

\* createScheduleChangeItem: the fields of a schedule change beyond the
\* common ones; a field that is never assigned is absent
createScheduleChangeItem(processedText, dates) ==
  LET changeType == detectChangeType(processedText)
      base == [change_type |-> changeType]
      timed == IF changeType = "time_change" /\ Len(dates) >= 2
                 THEN base @@ [original_time |-> dates[1], new_time |-> dates[2]]
               ELSE IF Len(dates) > 0 THEN base @@ [new_time |-> dates[1]]
               ELSE base
      locationMatch == LocationMatch(processedText)
  IN IF changeType = "location_change" /\ locationMatch # <<>>
     THEN timed @@ [new_location |-> locationMatch[1]]
     ELSE timed

\* createHomeworkItem, createScheduleChangeItem, createAnnouncementItem:
\* the fields common to the three item types, the fields of a schedule
\* change, and the confidence
createItem(type, processedText, originalMessage, metadata, confidence) ==
  LET common == [type |-> type,
                 chat_id |-> metadata.chat_id,
                 sender_id |-> metadata.sender_id,
                 timestamp |-> metadata.timestamp,
                 content |-> processedText,
                 original_message |-> originalMessage]
  IN [kind |-> "ClassificationResult",
      item |-> IF type = "schedule_change"
               THEN common @@ createScheduleChangeItem(processedText,
                                                   extractDates(processedText))
               ELSE common,
      confidence |-> confidence]

\* classifyMessage that looks at the schedule score before the homework score
classifyMessage_scheduleFirst(msg, metadata) ==
  LET processedText == extractContent(msg)
      importance == calculateImportance(processedText)
      homeworkScore == calculateHomeworkScore(processedText)
      scheduleScore == calculateScheduleChangeScore(processedText)
      announcementScore == calculateAnnouncementScore(processedText, importance)
  IN IF Less(importance, Tenths(1)) THEN Null
     ELSE IF Less(Tenths(6), scheduleScore)
     THEN createItem("schedule_change", processedText, msg, metadata, scheduleScore)
     ELSE IF Less(Tenths(6), homeworkScore)
     THEN createItem("homework", processedText, msg, metadata, homeworkScore)
     ELSE IF Less(Tenths(4), announcementScore)
     THEN createItem("announcement", processedText, msg, metadata, announcementScore)
     ELSE Null

\* classifyMessage with the announcement threshold taken as >= 0.4
classifyMessage_announcementAtThreshold(msg, metadata) ==
  LET processedText == extractContent(msg)
      importance == calculateImportance(processedText)
      homeworkScore == calculateHomeworkScore(processedText)
      scheduleScore == calculateScheduleChangeScore(processedText)
      announcementScore == calculateAnnouncementScore(processedText, importance)
  IN IF Less(importance, Tenths(1)) THEN Null
     ELSE IF Less(Tenths(6), homeworkScore)
     THEN createItem("homework", processedText, msg, metadata, homeworkScore)
     ELSE IF Less(Tenths(6), scheduleScore)
     THEN createItem("schedule_change", processedText, msg, metadata, scheduleScore)
     ELSE IF ~Less(announcementScore, Tenths(4))
     THEN createItem("announcement", processedText, msg, metadata, announcementScore)
     ELSE Null

\* no step of the try block throws on a string; the catch branch is dead
classifyMessage(msg, metadata) ==
  LET processedText == extractContent(msg)
      importance == calculateImportance(processedText)
      homeworkScore == calculateHomeworkScore(processedText)
      scheduleScore == calculateScheduleChangeScore(processedText)
      announcementScore == calculateAnnouncementScore(processedText, importance)
  IN IF Less(importance, Tenths(1)) THEN Null
     ELSE IF Less(Tenths(6), homeworkScore)
     THEN createItem("homework", processedText, msg, metadata, homeworkScore)
     ELSE IF Less(Tenths(6), scheduleScore)
     THEN createItem("schedule_change", processedText, msg, metadata, scheduleScore)
     ELSE IF Less(Tenths(4), announcementScore)
     THEN createItem("announcement", processedText, msg, metadata, announcementScore)
     ELSE Null

\* values of message.text that are not strings
UndefinedText == [t |-> "undefined", v |-> <<>>]
NumberText == [t |-> "number", v |-> <<"42">>]

\* classifyMessage that lets the error of its try block escape
classifyMessageCatch_rethrow(text, metadata) ==
  IF TypeofString(text)
  THEN [outcome |-> "returned", value |-> classifyMessage(text.v, metadata)]
  ELSE [outcome |-> "thrown", value |-> Null]

\* classifyMessage with its try/catch, on any value of the text: normalizeText
\* calls text.replace, a TypeError on a value that is not a string, and the
\* catch block returns null
classifyMessageCatch(text, metadata) ==
  IF TypeofString(text)
  THEN [outcome |-> "returned", value |-> classifyMessage(text.v, metadata)]
  ELSE [outcome |-> "returned", value |-> Null]

MetadataOf(m) == [chat_id |-> m.chat_id, sender_id |-> m.sender_id, timestamp |-> m.timestamp]

RECURSIVE classifyMessagesLoop(_, _, _)
classifyMessagesLoop(messages, i, acc) ==
  IF i > Len(messages) THEN Returned("classifyMessages", acc)
  ELSE LET r == classifyMessageCatch(messages[i].text, MetadataOf(messages[i]))
       IN IF r.outcome = "thrown" THEN Thrown("classifyMessages", "TypeError")
          ELSE classifyMessagesLoop(messages, i + 1,
                 IF r.value # Null THEN Append(acc, r.value) ELSE acc)

\* ContentClassifier.classifyMessages
classifyMessages(messages) == classifyMessagesLoop(messages, 1, <<>>)

(***************************************************************************)
(* SchoolChatSummarizer (src/src/SchoolChatSummarizer.ts).  The strings of *)
(* the filter are the texts of the classifier written out: Flatten writes  *)
(* the pieces of a text one after the other, Tokenize reads them back.     *)
(* The debug option only logs; processingTime and run_time are readings of *)
(* the wall clock.  The three are left out.                                *)
(***************************************************************************)
Flatten(t) ==
  LET F[i \in 0..Len(t)] == IF i = 0 THEN "" ELSE F[i - 1] \o t[i]
  IN F[Len(t)]

\* the texts that the summarizer is given
ProcessTexts ==
  {<<>>, <<" ", "\n">>, <<"Happy", " ", "birthday", " ", "to", " ", "Sarah">>,
   <<"hw", " ", "Due">>, <<"cancelled">>, <<"The">>}

Tokenize(s) == CHOOSE t \in ProcessTexts : Flatten(t) = s

ZeroStats ==
  [totalMessages |-> 0, filteredMessages |-> 0, classifiedMessages |-> 0,
   itemsByType |-> [homework |-> 0, schedule_change |-> 0, announcement |-> 0],
   processingTime |-> 0]

DefaultOptions == [minConfidence |-> Tenths(5), sortByTimestamp |-> TRUE]

\* the constructor
NewSummarizer(opts) == [options |-> opts, stats |-> ZeroStats]

\* the error thrown for one message, "" when the message passes
Summarizer_validateMessage(msg, index) ==
  CASE ~Truthy(msg.chat_id) \/ ~Truthy(msg.sender_id) \/ ~Truthy(msg.timestamp)
         \/ ~Truthy(msg.text) ->
         "Invalid message at index " \o ToString(index) \o ": missing required fields"
    [] isNaN(DateGetTime(msg.timestamp.v)) ->
         "Invalid timestamp in message at index " \o ToString(index)
    [] OTHER -> ""

RECURSIVE Summarizer_validateMessages(_, _)
Summarizer_validateMessages(messages, i) ==
  IF i > Len(messages) THEN ""
  ELSE LET e == Summarizer_validateMessage(messages[i], i - 1)
       IN IF e # "" THEN e ELSE Summarizer_validateMessages(messages, i + 1)

\* the error validateInput throws, "" when it returns; the modelled inputs
\* are objects with two arrays
Summarizer_validateInput(in) ==
  CASE ~Truthy(in.period.start) \/ ~Truthy(in.period.end) ->
         "period with start and end timestamps is required"
    [] isNaN(DateGetTime(in.period.start.v)) ->
         "period.start must be a valid ISO 8601 timestamp"
    [] isNaN(DateGetTime(in.period.end.v)) ->
         "period.end must be a valid ISO 8601 timestamp"
    [] DateGetTime(in.period.start.v) >= DateGetTime(in.period.end.v) ->
         "period.start must be before period.end"
    [] OTHER -> Summarizer_validateMessages(in.messages, 1)

\* filterMessages that takes every message the filter's validation accepts
filterMessages_everyMessage(this, in) ==
  LET whatsappMessages ==
        [i \in 1..Len(in.messages) |->
           Message(in.messages[i].chat_id, in.messages[i].sender_id,
                   in.messages[i].timestamp, in.messages[i].text, Undefined)]
      filterInput == [messages |-> whatsappMessages,
                      subscribed_chats |-> in.subscribed_chats,
                      period |-> in.period]
      f == filter(this, filterInput)
  IN [filterInput |-> filterInput]
       @@ IF f.result.outcome = "returned"
          THEN [f EXCEPT !.result.value.messages = whatsappMessages]
          ELSE f

\* filterMessages: the filter result, the cache and the locals of the filter
filterMessages(this, in) ==
  LET whatsappMessages ==
        [i \in 1..Len(in.messages) |->
           Message(in.messages[i].chat_id, in.messages[i].sender_id,
                   in.messages[i].timestamp, in.messages[i].text, Undefined)]
      filterInput == [messages |-> whatsappMessages,
                      subscribed_chats |-> in.subscribed_chats,
                      period |-> in.period]
  IN [filterInput |-> filterInput] @@ filter(this, filterInput)

\* the loop of SchoolChatSummarizer.classifyMessages: the results and the
\* itemsByType counters
RECURSIVE Summarizer_classifyMessagesLoop(_, _, _, _, _)
Summarizer_classifyMessagesLoop(minConfidence, messages, i, acc, itemsByType) ==
  IF i > Len(messages) THEN [results |-> acc, itemsByType |-> itemsByType]
  ELSE LET m == messages[i]
           r == classifyMessageCatch(
                  Str(Tokenize(m.text.v)),
                  [chat_id |-> m.chat_id.v, sender_id |-> m.sender_id.v,
                   timestamp |-> DateGetTime(m.timestamp.v)])
       IN IF r.outcome = "returned" /\ r.value # Null
             /\ ~Less(r.value.confidence, minConfidence)
          THEN Summarizer_classifyMessagesLoop(minConfidence, messages, i + 1,
                 Append(acc, r.value),
                 [itemsByType EXCEPT ![r.value.item.type] = @ + 1])
          ELSE Summarizer_classifyMessagesLoop(minConfidence, messages, i + 1, acc,
                                               itemsByType)

Summarizer_classifyMessages(this, messages) ==
  Summarizer_classifyMessagesLoop(this.options.minConfidence, messages, 1, <<>>,
                                  this.stats.itemsByType)

convertToOutputFormat(classifiedItems) ==
  [i \in 1..Len(classifiedItems) |->
     [type |-> classifiedItems[i].item.type,
      chat_id |-> classifiedItems[i].item.chat_id,
      sender_id |-> classifiedItems[i].item.sender_id,
      timestamp |-> toISOString(classifiedItems[i].item.timestamp),
      content |-> classifiedItems[i].item.content]]

\* a sort that leaves the items as they are
SortByTimestamp_inputOrder(items) == items

\* Array.prototype.sort with the comparator of process: stable, by timestamp
SortByTimestamp(items) ==
  LET Key(x) == DateGetTime(x.timestamp)
      Insert(acc, x) ==
        LET k == Cardinality({j \in 1..Len(acc) : Key(acc[j]) <= Key(x)})
        IN SubSeq(acc, 1, k) \o <<x>> \o SubSeq(acc, k + 1, Len(acc))
      F[i \in 0..Len(items)] == IF i = 0 THEN <<>> ELSE Insert(F[i - 1], items[i])
  IN F[Len(items)]

(***************************************************************************)
(* Inputs                                                                  *)
(***************************************************************************)
SeqsUpTo(S, n) == UNION {[1..k -> S] : k \in 0..n}

FilterInput(messages, subscribed, start, end) ==
  [messages |-> messages, subscribed_chats |-> subscribed,
   period |-> [start |-> Str(start), end |-> Str(end)]]

\* messages that differ in any of the four key fields, separator included
DedupMessages ==
  {Message(Str(c), Str(s), Str(ts), Str(tx), Undefined) :
     c \in {"a", "a:b"}, s \in {"c", "b:c"}, ts \in {T09, T10}, tx \in {"", "t"}}

DedupInputs ==
  {FilterInput(ms, <<"a", "a:b">>, T08, T11) : ms \in SeqsUpTo(DedupMessages, MaxMsgs)}

\* messages in and out of the subscription and the window, with passthrough fields
WindowMessages ==
  {Message(Str(c), Str("c"), Str(ts), Str("t"), x) :
     c \in {"a", "x"}, ts \in {T08, T09, T10}, x \in {Undefined, Str("meta")}}

WindowPeriods ==
  {<<T08, T10>>, <<T09, T10>>, <<T08, T09>>, <<T09, T09>>, <<T10, T09>>}

WindowInputs ==
  {FilterInput(ms, sub, p[1], p[2]) :
     ms \in SeqsUpTo(WindowMessages, MaxMsgs),
     sub \in {<<"a">>, <<"a", "x">>},
     p \in WindowPeriods}

FilterOnceInputs == DedupInputs \cup WindowInputs

\* the instance life cycle: two valid messages, one of an unsubscribed chat,
\* and messages that break one validation rule each
M0 == Message(Str("a"), Str("c"), Str(T09), Str("t"), Undefined)
M1 == Message(Str("a"), Str("c"), Str(T10), Str("t"), Undefined)

LifecycleMessages ==
  {M0, M1,
   Message(Str(""), Str("c"), Str(T09), Str("t"), Undefined),
   Message(Str("a"), Undefined, Str(T09), Str("t"), Undefined),
   Message(Str("x"), Str("c"), Str(T10short), Str("t"), Undefined),
   Message(Str("a"), Str("c"), Str(TGarbage), Str("t"), Undefined),
   Message(Str("a"), Str("c"), Str(T11), Num("42"), Undefined)}

LifecycleInputs ==
  {FilterInput(ms, <<"a">>, T08, e) :
     ms \in SeqsUpTo(LifecycleMessages, MaxBatch), e \in {T10, T11}}

FilterOptions == {[enableCache |-> TRUE, cacheSize |-> 0],
                  [enableCache |-> TRUE, cacheSize |-> 1],
                  [enableCache |-> TRUE, cacheSize |-> 2],
                  [enableCache |-> FALSE, cacheSize |-> 2]}

\* texts: up to MaxWords words, written with single spaces or with runs of
\* whitespace around and between the words
Vocabulary == {"The", "Due", "hw", "cancelled", "moved", "important"}

WhitespaceStyles == {[sep |-> <<" ">>, pad |-> <<>>],
                     [sep |-> <<" ", "\n">>, pad |-> <<" ">>]}

Join(words, sep) ==
  LET F[i \in 0..Len(words)] ==
        IF i = 0 THEN <<>>
        ELSE IF i = 1 THEN <<words[1]>>
        ELSE F[i - 1] \o sep \o <<words[i]>>
  IN F[Len(words)]

Texts ==
  {st.pad \o Join(ws, st.sep) \o st.pad :
     ws \in SeqsUpTo(Vocabulary, MaxWords), st \in WhitespaceStyles}

\* sentences of the test data and of the specification's scenarios; "rain."
\* is one piece, the word with its full stop, which no pattern mentions
PESentence == Join(<<"PE", "class", "cancelled", "today", "due", "to", "rain.">>, <<" ">>)
VeryShort == <<"Hi">>
Greeting == <<"Happy", " ", "birthday", " ", "to", " ", "Sarah">>

ScenarioTexts == {PESentence, VeryShort, Greeting}

\* texts about changes of schedule: words of the schedule patterns, relative
\* and numeric dates, single spaces
ScheduleTexts ==
  {Join(ws, <<" ">>) :
     ws \in SeqsUpTo({"moved", "to", "room", "cancelled", "tomorrow", "25/12", "26/12",
                      "this", "week"}, MaxScheduleWords)}

\* the days new Date() may give: whole weeks from Sunday 12 January 2025
NowDays == 11..(11 + 7 * MaxWeeks - 1)

\* batches for classifyMessages: texts of each outcome of classifyMessage and
\* values that are not strings
BatchTexts ==
  {Str(<<"hw", " ", "Due">>), Str(<<"cancelled">>), Str(Greeting), Str(<<"The">>),
   UndefinedText, NumberText}

BatchMessages ==
  {[text |-> x, chat_id |-> "a", sender_id |-> s, timestamp |-> DateTable[T09]] :
     x \in BatchTexts, s \in {"c", "d"}}

Batches == SeqsUpTo(BatchMessages, MaxBatch)

\* characters: whitespace, ASCII and typographic quotation marks, the
\* apostrophe and an ordinary character
LeftDoubleQuotationMark == "U+201C"
Chars == {" ", "\n", "\t", "\"", "'", LeftDoubleQuotationMark, "x"}

RawTexts == SeqsUpTo(Chars, MaxChars)

\* inputs of process: messages of a subscribed and of another chat, with
\* each text, and one whose timestamp is a date but not in the canonical form
ProcessMessages ==
  {Message(Str(c), Str("c"), Str(ts), Str(Flatten(t)), Undefined) :
     c \in {"a", "x"}, ts \in {T09, T10}, t \in ProcessTexts}
  \cup {Message(Str("a"), Str("c"), Str(T10short), Str("cancelled"), Undefined)}

ProcessInputs ==
  {FilterInput(ms, <<"a">>, T08, end) :
     ms \in SeqsUpTo(ProcessMessages, MaxBatch), end \in {T10, T11}}

\* inputs of two calls: an item of each of two types, a message of a chat
\* that is not subscribed, a message the filter rejects, a period the
\* summarizer rejects
RepeatInputs ==
  {FilterInput(ms, <<"a">>, T08, T11) :
     ms \in SeqsUpTo(
       {Message(Str("a"), Str("c"), Str(T09), Str("cancelled"), Undefined),
        Message(Str("a"), Str("c"), Str(T10), Str(Flatten(<<"hw", " ", "Due">>)), Undefined),
        Message(Str("x"), Str("c"), Str(T09), Str("cancelled"), Undefined),
        Message(Str("a"), Str("c"), Str(T10short), Str("cancelled"), Undefined)},
       MaxRepeatBatch)}
  \cup {FilterInput(<<>>, <<"a">>, T11, T08)}

SummarizerOptions ==
  {DefaultOptions,
   [minConfidence |-> Tenths(5), sortByTimestamp |-> FALSE],
   [minConfidence |-> Tenths(9), sortByTimestamp |-> TRUE]}

(***************************************************************************)
(* Actions                                                                 *)
(***************************************************************************)
This == [options |-> options, cache |-> cache]

DoFilter(in) ==
  LET r == filter(This, in)
  IN /\ input' = in
     /\ result' = r.result
     /\ cache' = r.cache
     /\ locals' = r.locals
     /\ UNCHANGED <<options, classifierVars, normalizerVars, summarizerVars, now, parsed>>

\* MessageFilter.filter called with any input
Filter == \E in \in LifecycleInputs : DoFilter(in)

\* MessageFilter.filter applied to the input drawn initially
FilterOnce == result.op = "none" /\ DoFilter(input)

clearCache ==
  /\ cache' = <<>>
  /\ result' = Returned("clearCache", NoValue)
  /\ UNCHANGED <<options, input, locals, classifierVars, normalizerVars, summarizerVars, now, parsed>>

getCacheSize == Len(cache)

NoInput == FilterInput(<<>>, <<>>, T08, T11)
NoProcessCall ==
  [pc |-> "idle", input |-> NoInput, filtered |-> NoCall, classifiedItems |-> <<>>,
   outcome |-> NoCall, overlapped |-> FALSE]
Metadata == [chat_id |-> "a", sender_id |-> "c", timestamp |-> DateTable[T09]]
NoMessage == [text |-> <<>>, metadata |-> Metadata]
NotClassified == [called |-> FALSE, value |-> Null]

\* ContentClassifier.classifyMessage applied to the message drawn initially
Classify ==
  /\ ~classified.called
  /\ classified' = [called |-> TRUE,
                    value |-> classifyMessage(message.text, message.metadata)]
  /\ UNCHANGED <<filterVars, message, batch, results, normalizerVars, summarizerVars, now, parsed>>

\* ContentClassifier.classifyMessages applied to the batch drawn initially
ClassifyMessages ==
  /\ results.op = "none"
  /\ results' = classifyMessages(batch)
  /\ UNCHANGED <<filterVars, message, classified, batch, normalizerVars, summarizerVars, now, parsed>>

\* normalizeText applied to the text drawn initially, and then to its own result
Normalize ==
  /\ Len(normalized) < 2
  /\ normalized' = Append(normalized,
                          normalizeText(IF normalized = <<>> THEN raw
                                        ELSE normalized[Len(normalized)]))
  /\ UNCHANGED <<filterVars, classifierVars, raw, summarizerVars, now, parsed>>

\* resetStats that leaves the statistics of the last run
resetStats_keep(this) == this

resetStats(this) == [this EXCEPT !.stats = ZeroStats]

\* an assignment of processingTime that starts from fresh statistics
setProcessingTime_fresh(this, t) ==
  [this EXCEPT !.stats = [ZeroStats EXCEPT !.processingTime = t]]

\* this.stats.processingTime = Date.now() - startTime
setProcessingTime(this, t) == [this EXCEPT !.stats.processingTime = t]

\* a catch block that throws the error it caught
ProcessError_rethrow(error) == Thrown("process", error)

\* the catch block of process: every error of the code is an Error, and the
\* new Error carries its message behind a prefix
ProcessError(error) == Thrown("process", "Failed to process messages: " \o error)

\* process up to its first await: validateInput, resetStats and the call of
\* filterMessages, which runs the filter before it hands back its promise;
\* the call overlaps another one that has not settled
process(c) ==
  /\ calls[c].pc = "called"
  /\ LET err == Summarizer_validateInput(calls[c].input)
         overlaps == \E o \in CallIds \ {c} : calls[o].pc \in {"awaitFilter", "awaitClassify"}
     IN IF err # ""
        THEN /\ calls' = [calls EXCEPT ![c].pc = "done",
                             ![c].overlapped = overlaps,
                             ![c].outcome = ProcessError(err)]
             /\ \E t \in 0..MaxElapsed : summarizer' = setProcessingTime(summarizer, t)
             /\ UNCHANGED <<filterVars, microtasks>>
        ELSE LET r == filterMessages(This, calls[c].input)
             IN /\ summarizer' = [resetStats(summarizer) EXCEPT
                                    !.stats.totalMessages = Len(calls[c].input.messages)]
                /\ input' = r.filterInput
                /\ result' = r.result
                /\ cache' = r.cache
                /\ locals' = r.locals
                /\ calls' = [calls EXCEPT ![c].pc = "awaitFilter",
                                          ![c].overlapped = overlaps,
                                          ![c].filtered = r.result]
                /\ microtasks' = Append(microtasks, c)
                /\ UNCHANGED options
  /\ UNCHANGED <<classifierVars, normalizerVars, now, parsed>>

\* process from the promise of filterMessages to its second await: the
\* rejection goes to the catch block; otherwise classifyMessages runs
process_afterFilter(c) ==
  /\ microtasks # <<>> /\ Head(microtasks) = c
  /\ calls[c].pc = "awaitFilter"
  /\ IF calls[c].filtered.outcome = "thrown"
     THEN /\ calls' = [calls EXCEPT ![c].pc = "done",
                          ![c].outcome = ProcessError(calls[c].filtered.error)]
          /\ \E t \in 0..MaxElapsed : summarizer' = setProcessingTime(summarizer, t)
          /\ microtasks' = Tail(microtasks)
     ELSE LET filteredMessages == calls[c].filtered.value.messages
              this == [summarizer EXCEPT !.stats.filteredMessages = Len(filteredMessages)]
              r == Summarizer_classifyMessages(this, filteredMessages)
          IN /\ summarizer' = [this EXCEPT !.stats.itemsByType = r.itemsByType]
             /\ calls' = [calls EXCEPT ![c].pc = "awaitClassify",
                                       ![c].classifiedItems = r.results]
             /\ microtasks' = Append(Tail(microtasks), c)
  /\ UNCHANGED <<filterVars, classifierVars, normalizerVars, now, parsed>>

\* process after the promise of classifyMessages: conversion, sort, return
process_afterClassify(c) ==
  /\ microtasks # <<>> /\ Head(microtasks) = c
  /\ calls[c].pc = "awaitClassify"
  /\ LET extractedItems == convertToOutputFormat(calls[c].classifiedItems)
         sorted == IF summarizer.options.sortByTimestamp
                   THEN SortByTimestamp(extractedItems)
                   ELSE extractedItems
     IN /\ \E t \in 0..MaxElapsed :
             summarizer' = setProcessingTime(
                             [summarizer EXCEPT !.stats.classifiedMessages =
                                                  Len(calls[c].classifiedItems)], t)
        /\ calls' = [calls EXCEPT ![c].pc = "done",
                        ![c].outcome = Returned("process",
                                                [period |-> calls[c].input.period,
                                                 extracted_items |-> sorted])]
        /\ microtasks' = Tail(microtasks)
  /\ UNCHANGED <<filterVars, classifierVars, normalizerVars, now, parsed>>

FilterIdle ==
  /\ options = [enableCache |-> TRUE, cacheSize |-> 2]
  /\ cache = <<>>
  /\ input = NoInput
  /\ result = NoCall
  /\ locals = NoLocals

ClassifierIdle ==
  /\ message = NoMessage
  /\ classified = NotClassified
  /\ batch = <<>>
  /\ results = NoCall

NormalizerIdle == raw = <<>> /\ normalized = <<>>

\* parseRelativeDate applied to the phrase drawn initially, on the day now, as
\* extractDates calls it
ParseRelativeDate ==
  /\ ~parsed.called
  /\ parsed' = [parsed EXCEPT !.called = TRUE,
                              !.value = parseRelativeDate(parsed.text, now)]
  /\ UNCHANGED <<filterVars, classifierVars, normalizerVars, summarizerVars, now>>

\* the clock stands at Wednesday 15 January 2025, the day of DateTable, and
\* parseRelativeDate has not been called
ClockIdle == now = 14 /\ parsed = [called |-> FALSE, text |-> <<>>, value |-> <<>>]

SummarizerIdle ==
  /\ summarizer = NewSummarizer(DefaultOptions)
  /\ calls = [c \in CallIds |-> NoProcessCall]
  /\ microtasks = <<>>

\* a MessageFilter after construction
Init ==
  /\ options \in FilterOptions
  /\ cache = <<>>
  /\ input = NoInput
  /\ result = NoCall
  /\ locals = NoLocals
  /\ ClassifierIdle
  /\ NormalizerIdle
  /\ SummarizerIdle
  /\ ClockIdle

Next == Filter \/ clearCache

Spec == Init /\ [][Next]_vars

\* one filter call on a fresh instance, over the richer inputs
InitFilterOnce ==
  /\ options \in FilterOptions
  /\ cache = <<>>
  /\ input \in FilterOnceInputs
  /\ result = NoCall
  /\ locals = NoLocals
  /\ ClassifierIdle
  /\ NormalizerIdle
  /\ SummarizerIdle
  /\ ClockIdle

NextFilterOnce == FilterOnce

SpecFilterOnce == InitFilterOnce /\ [][NextFilterOnce]_vars

\* one classifyMessage call on a fresh classifier
InitClassify ==
  /\ options = [enableCache |-> TRUE, cacheSize |-> 2]
  /\ cache = <<>>
  /\ input = NoInput
  /\ result = NoCall
  /\ locals = NoLocals
  /\ message \in {[text |-> t, metadata |-> Metadata] : t \in Texts \cup ScenarioTexts}
  /\ classified = NotClassified
  /\ batch = <<>>
  /\ results = NoCall
  /\ NormalizerIdle
  /\ SummarizerIdle
  /\ ClockIdle

NextClassify == Classify

SpecClassify == InitClassify /\ [][NextClassify]_vars

\* one classifyMessages call on a fresh classifier
InitClassifyBatch ==
  /\ FilterIdle
  /\ message = NoMessage
  /\ classified = NotClassified
  /\ batch \in Batches
  /\ results = NoCall
  /\ NormalizerIdle
  /\ SummarizerIdle
  /\ ClockIdle

NextClassifyBatch == ClassifyMessages

SpecClassifyBatch == InitClassifyBatch /\ [][NextClassifyBatch]_vars

\* normalizeText on a fresh extractor
InitNormalize ==
  /\ FilterIdle
  /\ ClassifierIdle
  /\ raw \in RawTexts
  /\ normalized = <<>>
  /\ SummarizerIdle
  /\ ClockIdle

\* one process call on a fresh summarizer, whose messageFilter has the
\* default options
InitProcess ==
  /\ options = [enableCache |-> TRUE, cacheSize |-> 1000]
  /\ cache = <<>>
  /\ input = NoInput
  /\ result = NoCall
  /\ locals = NoLocals
  /\ ClassifierIdle
  /\ NormalizerIdle
  /\ ClockIdle
  /\ summarizer \in {NewSummarizer(o) : o \in SummarizerOptions}
  /\ calls \in {[c \in CallIds |->
                   IF c = 1 THEN [NoProcessCall EXCEPT !.pc = "called", !.input = in]
                   ELSE NoProcessCall] : in \in ProcessInputs}
  /\ microtasks = <<>>

\* one classifyMessage call on a text about a change of schedule
InitSchedule ==
  /\ FilterIdle
  /\ message \in {[text |-> t, metadata |-> Metadata] : t \in ScheduleTexts}
  /\ classified = NotClassified
  /\ batch = <<>>
  /\ results = NoCall
  /\ NormalizerIdle
  /\ SummarizerIdle
  /\ ClockIdle

SpecSchedule == InitSchedule /\ [][Classify]_vars

\* one parseRelativeDate call on any day of the weeks of NowDays, with a
\* match of DATE_PATTERNS.relative, lower-cased
InitRelativeDate ==
  /\ FilterIdle
  /\ ClassifierIdle
  /\ NormalizerIdle
  /\ SummarizerIdle
  /\ now \in NowDays
  /\ parsed \in {[called |-> FALSE, text |-> ph, value |-> <<>>] :
                    ph \in {<<"today">>, <<"tomorrow">>, <<"yesterday">>,
                            <<"next", "week">>, <<"this", "week">>,
                            <<"next", "monday">>, <<"this", "morning">>}}

SpecRelativeDate == InitRelativeDate /\ [][ParseRelativeDate]_vars

NextProcess ==
  \E c \in CallIds : process(c) \/ process_afterFilter(c) \/ process_afterClassify(c)

SpecProcess == InitProcess /\ [][NextProcess]_vars

\* two process calls on one summarizer; the second starts at any time after
\* the first has started
InitProcessTwice ==
  /\ options = [enableCache |-> TRUE, cacheSize |-> 1000]
  /\ cache = <<>>
  /\ input = NoInput
  /\ result = NoCall
  /\ locals = NoLocals
  /\ ClassifierIdle
  /\ NormalizerIdle
  /\ ClockIdle
  /\ summarizer = NewSummarizer(DefaultOptions)
  /\ calls \in [CallIds -> {[NoProcessCall EXCEPT !.pc = "called", !.input = in] :
                              in \in RepeatInputs}]
  /\ microtasks = <<>>

NextProcessTwice ==
  \/ process(1)
  \/ calls[1].pc # "called" /\ process(2)
  \/ \E c \in CallIds : process_afterFilter(c) \/ process_afterClassify(c)

SpecProcessTwice == InitProcessTwice /\ [][NextProcessTwice]_vars

NextNormalize == Normalize

SpecNormalize == InitNormalize /\ [][NextNormalize]_vars

(***************************************************************************)
(* Vocabulary of the filter claims, stated on the input and the result     *)
(***************************************************************************)
FilterReturned == result.op = "filter" /\ result.outcome = "returned"
FilterThrew == result.op = "filter" /\ result.outcome = "thrown"

Output == result.value.messages
Stats == result.value.stats

Ms(ts) == DateTable[ts.v]

Subscribed(m) == \E k \in 1..Len(input.subscribed_chats) : input.subscribed_chats[k] = m.chat_id.v

InWindow(m) ==
  /\ Ms(input.period.start) <= Ms(m.timestamp)
  /\ Ms(m.timestamp) < Ms(input.period.end)

InScope(m) == Subscribed(m) /\ InWindow(m)

SameTuple(m1, m2) ==
  /\ m1.chat_id = m2.chat_id
  /\ m1.sender_id = m2.sender_id
  /\ m1.timestamp = m2.timestamp
  /\ m1.text = m2.text

Indices == 1..Len(input.messages)

Count(P(_)) == Cardinality({i \in Indices : P(input.messages[i])})

\* the in-scope entries that no earlier entry equals in the four fields
FirstOccurrences ==
  {i \in Indices :
     /\ InScope(input.messages[i])
     /\ \A j \in 1..(i - 1) : ~SameTuple(input.messages[j], input.messages[i])}

AtIndices(K) ==
  LET F[i \in 0..Len(input.messages)] ==
        IF i = 0 THEN <<>>
        ELSE IF i \in K THEN Append(F[i - 1], input.messages[i]) ELSE F[i - 1]
  IN F[Len(input.messages)]

Copies(m) == Cardinality({k \in 1..Len(Output) : SameTuple(Output[k], m)})

\* C1 (as claimed): a message that occurs k >= 1 times in scope has exactly one
\* copy in the output, at the place of its first occurrence, and
\* duplicatesRemoved counts the other k-1 copies of every such message.
C1_OneCopyPerMessage ==
  FilterReturned =>
    /\ \A i \in Indices : InScope(input.messages[i]) => Copies(input.messages[i]) = 1
    /\ Output = AtIndices(FirstOccurrences)
    /\ Stats.duplicatesRemoved = Count(InScope) - Cardinality(FirstOccurrences)

\* C2: a subscribed message passes the time filter exactly when
\* period.start <= timestamp < period.end, and only such messages are returned.
C2_HalfOpenWindow ==
  FilterReturned =>
    /\ \A i \in Indices :
         Subscribed(input.messages[i]) =>
           ((input.messages[i] \in Range(locals.timeFilteredMessages))
              <=> InWindow(input.messages[i]))
    /\ \A k \in 1..Len(Output) : InWindow(Output[k])
    /\ Stats.filteredByTimePeriod =
         Cardinality({i \in Indices : Subscribed(input.messages[i])
                                        /\ ~InWindow(input.messages[i])})

C2_Witness ==
  /\ FilterReturned
  /\ \E i, j \in Indices :
       /\ Subscribed(input.messages[i]) /\ Subscribed(input.messages[j])
       /\ input.messages[i].timestamp = input.period.start
       /\ input.messages[i] \in Range(Output)
       /\ input.messages[j].timestamp = input.period.end
       /\ input.messages[j] \notin Range(Output)

\* C3 (as claimed): two in-scope messages are treated as duplicates exactly
\* when their four key fields are equal; two that differ in a field are both kept.
C3_DuplicateIffSameTuple ==
  FilterReturned =>
    \A i, j \in Indices :
      (i < j /\ InScope(input.messages[i]) /\ InScope(input.messages[j])) =>
        Cardinality({k \in 1..Len(Output) :
                       \/ SameTuple(Output[k], input.messages[i])
                       \/ SameTuple(Output[k], input.messages[j])})
          = IF SameTuple(input.messages[i], input.messages[j]) THEN 1 ELSE 2

\* C7: a period with start >= end makes filter raise, with no messages and
\* no stats, whatever the message list is.
C7_InvalidPeriodRaises ==
  (result.op = "filter" /\ Ms(input.period.start) >= Ms(input.period.end)) =>
    (result.outcome = "thrown" /\ result.value = NoValue)

C7_Witness ==
  /\ FilterThrew
  /\ Ms(input.period.start) = Ms(input.period.end)
  /\ input.messages = <<>>
  /\ result.value = NoValue

CanonicalTimestamps == {T08, T09, T10, T11}

InvalidMessage(m) ==
  \/ m.chat_id.t # "string" \/ m.chat_id.v = ""
  \/ m.sender_id.t # "string" \/ m.sender_id.v = ""
  \/ m.timestamp.t # "string" \/ m.timestamp.v \notin CanonicalTimestamps
  \/ m.text.t # "string"

HasInvalidMessage(in) == \E i \in 1..Len(in.messages) : InvalidMessage(in.messages[i])

\* C8: a filter call whose batch has an invalid message raises, returns
\* neither messages nor counters, and leaves the cache as it was.
C8_WholeBatchValidation ==
  [][(result'.op = "filter" /\ HasInvalidMessage(input')) =>
       (result'.outcome = "thrown" /\ result'.value = NoValue /\ cache' = cache)]_vars

C8_Witness ==
  /\ FilterThrew
  /\ Len(cache) > 0
  /\ Len(input.messages) > 1
  /\ \E i \in Indices : InvalidMessage(input.messages[i]) /\ ~Subscribed(input.messages[i])
  /\ \E i \in Indices : ~InvalidMessage(input.messages[i]) /\ InScope(input.messages[i])

Unsubscribed(m) == ~Subscribed(m)
OutOfWindow(m) == Subscribed(m) /\ ~InWindow(m)

\* C9: every dropped message is counted at the first stage that drops it:
\* subscription, then time window, then dedup.
C9_StageOrder ==
  FilterReturned =>
    /\ Stats.filteredBySubscription = Count(Unsubscribed)
    /\ Stats.filteredByTimePeriod = Count(OutOfWindow)
    /\ Stats.duplicatesRemoved = Count(InScope) - Len(Output)
    /\ Stats.duplicatesRemoved <= Count(InScope)

C9_Witness ==
  /\ FilterReturned
  /\ \E i, j, k \in Indices :
       /\ i < j
       /\ input.messages[i] = input.messages[j]
       /\ ~Subscribed(input.messages[i]) /\ ~InWindow(input.messages[i])
       /\ OutOfWindow(input.messages[k])
  /\ Stats.filteredBySubscription = 2
  /\ Stats.filteredByTimePeriod = 1
  /\ Stats.duplicatesRemoved = 0

IsSubsequence(out, in) ==
  \E f \in [1..Len(out) -> 1..Len(in)] :
    /\ \A k \in 1..Len(out) : out[k] = in[f[k]]
    /\ \A k \in 1..(Len(out) - 1) : f[k] < f[k + 1]

\* C10: the output is a subsequence of the input, and each output message
\* is an input message with all its fields, the passthrough field included.
C10_OutputIsSubsequence ==
  FilterReturned => IsSubsequence(Output, input.messages)

C10_Witness ==
  /\ FilterReturned
  /\ Len(Output) >= 2
  /\ Len(Output) < Len(input.messages)
  /\ Output[1] # Output[2]
  /\ \E k \in 1..Len(Output) : Output[k].extra = Str("meta")

(***************************************************************************)
(* Vocabulary of the classifier claims                                     *)
(***************************************************************************)
ProcessedText == extractContent(message.text)
Importance == calculateImportance(ProcessedText)
HomeworkScore == calculateHomeworkScore(ProcessedText)
ScheduleScore == calculateScheduleChangeScore(ProcessedText)
AnnouncementScore == calculateAnnouncementScore(ProcessedText, Importance)

Gt(a, b) == a.n * b.d > b.n * a.d
Le(a, b) == a.n * b.d <= b.n * a.d
Ge(a, b) == a.n * b.d >= b.n * a.d

PassesGate == Ge(Importance, Tenths(1))

GaveItem == classified.called /\ classified.value # Null
ItemType == classified.value.item.type
Confidence == classified.value.confidence

\* C4: a message that passes the importance gate with a homework score
\* above 0.6 is classified homework, whatever its other scores are.
C4_HomeworkPriority ==
  (classified.called /\ PassesGate /\ Gt(HomeworkScore, Tenths(6))) =>
    (GaveItem /\ ItemType = "homework")

C4_Witness ==
  /\ GaveItem
  /\ ItemType = "homework"
  /\ Gt(ScheduleScore, HomeworkScore)
  /\ Gt(HomeworkScore, Tenths(6))

\* C5: the confidence of every returned result lies in [0, 1].
C5_ConfidenceInUnitInterval ==
  GaveItem => (Confidence.d > 0 /\ 0 <= Confidence.n /\ Confidence.n <= Confidence.d)

C5_Witness ==
  /\ GaveItem
  /\ ItemType = "announcement"
  /\ Importance.n = Importance.d
  /\ Test(ANNOUNCEMENT_PATTERNS_urgent, ProcessedText)
  /\ Confidence.n = Confidence.d

\* C6: the confidence is the score of the returned category, and the strict
\* thresholds are tried in the order homework, schedule_change, announcement;
\* a message that passes the gate and none of the thresholds gives null.
C6_OrderedStrictThresholds ==
  classified.called =>
    /\ (GaveItem /\ ItemType = "homework") =>
         (Confidence = HomeworkScore /\ Gt(HomeworkScore, Tenths(6)))
    /\ (GaveItem /\ ItemType = "schedule_change") =>
         /\ Le(HomeworkScore, Tenths(6))
         /\ Confidence = ScheduleScore /\ Gt(ScheduleScore, Tenths(6))
    /\ (GaveItem /\ ItemType = "announcement") =>
         /\ Le(HomeworkScore, Tenths(6)) /\ Le(ScheduleScore, Tenths(6))
         /\ Confidence = AnnouncementScore /\ Gt(AnnouncementScore, Tenths(4))
    /\ (PassesGate /\ Le(HomeworkScore, Tenths(6)) /\ Le(ScheduleScore, Tenths(6))
          /\ Le(AnnouncementScore, Tenths(4))) => classified.value = Null

C6_Witness ==
  /\ classified.called
  /\ classified.value = Null
  /\ PassesGate
  /\ AnnouncementScore.n * 10 = 4 * AnnouncementScore.d
  /\ ScheduleScore = Tenths(5)

\* C11: classifyMessage returns null for the empty string and for every text
\* that holds whitespace only.
C11_BlankTextGivesNull ==
  (classified.called /\ WordsOf(message.text) = <<>>) => classified.value = Null

\* C12: classifyMessage returns null for every message with fewer than three
\* non-stopword tokens, and for every message whose importance is below 0.1
\* (stated on the texts that hold a word; the blank texts are the case of C11).
ContentWords == ArrayFilter(Split(ProcessedText), LAMBDA w : w \notin STOP_WORDS)

C12_LowSignalGate ==
  (/\ classified.called
   /\ WordsOf(message.text) # <<>>
   /\ (Len(ContentWords) < 3 \/ Less(Importance, Tenths(1)))) =>
    classified.value = Null

\* C18: "PE class cancelled today due to rain." is classified schedule_change
\* with change_type cancellation.
C18_PEClassCancelled ==
  (classified.called /\ message.text = PESentence) =>
    /\ GaveItem
    /\ ItemType = "schedule_change"
    /\ classified.value.item.change_type = "cancellation"

(***************************************************************************)
(* The cache of the filter, over sequences of filter and clearCache calls  *)
(***************************************************************************)
KeyOf(m) == getMessageKey(This, m).key

\* C14: the result of a filter call depends on the input of that call only:
\* it is the result that a new instance gives for the same input, whatever
\* calls came before and whether the cache is enabled, empty, partly filled
\* or full.
C14_ResultDependsOnInputOnly ==
  result.op = "filter" =>
    \A o \in FilterOptions : result = filter([options |-> o, cache |-> <<>>], input).result

\* the only cached key was recorded by an earlier call, and its message is kept
C14_Witness ==
  /\ FilterReturned
  /\ options.enableCache /\ options.cacheSize = 1
  /\ input.messages = <<M1, M0>>
  /\ cache = <<KeyOf(M0)>>
  /\ Output = <<M1, M0>>

\* C15: after any sequence of filter and clearCache calls getCacheSize is at
\* most cacheSize, and it is 0 right after clearCache.
C15_CacheBounded ==
  /\ getCacheSize <= options.cacheSize
  /\ result.op = "clearCache" => getCacheSize = 0

C15_Witness ==
  /\ FilterReturned
  /\ options.enableCache
  /\ Stats.finalCount > options.cacheSize
  /\ getCacheSize = options.cacheSize

\* C16: a filter call removes no key from the cache, and a filter call on a
\* cache that holds cacheSize keys leaves the cache as it is.
C16_NoEviction ==
  [][result'.op = "filter" =>
       /\ Range(cache) \subseteq Range(cache')
       /\ Len(cache) >= options.cacheSize => cache' = cache]_vars

\* the full cache holds the key of an earlier call and not the key of the
\* message that the last call returned
C16_Witness ==
  /\ FilterReturned
  /\ options.enableCache /\ options.cacheSize = 1
  /\ input.messages = <<M1>>
  /\ Output = <<M1>>
  /\ cache = <<KeyOf(M0)>>

(***************************************************************************)
(* Batch classification and normalization                                  *)
(***************************************************************************)
HasStringText(m) == TypeofString(m.text)

\* C13: classifyMessage never raises: an error inside it gives null for that
\* message only, and classifyMessages returns, in input order, the results
\* that the batch without the failing messages gives.
C13_BatchIsolation ==
  results.op = "classifyMessages" =>
    /\ results.outcome = "returned"
    /\ results = classifyMessages(ArrayFilter(batch, HasStringText))
    /\ \A i \in 1..Len(batch) :
         ~HasStringText(batch[i]) =>
           classifyMessageCatch(batch[i].text, MetadataOf(batch[i]))
             = [outcome |-> "returned", value |-> Null]

C13_Witness ==
  /\ results.op = "classifyMessages"
  /\ Len(batch) = 2
  /\ ~HasStringText(batch[1])
  /\ HasStringText(batch[2])
  /\ Len(results.value) = 1

HasLeadingOrTrailingSpace(t) == t # <<>> /\ (IsSpace(t[1]) \/ IsSpace(t[Len(t)]))
HasWhitespaceRun(t) == \E i \in 1..(Len(t) - 1) : IsSpace(t[i]) /\ IsSpace(t[i + 1])

\* C17: normalizeText is idempotent on every text of whitespace, newlines,
\* quotation marks, apostrophes and ordinary characters, and its result has
\* no leading space, no trailing space and no two whitespace characters in a
\* row.
C17_NormalizeIdempotent ==
  /\ Len(normalized) >= 1 =>
       (~HasLeadingOrTrailingSpace(normalized[1]) /\ ~HasWhitespaceRun(normalized[1]))
  /\ Len(normalized) = 2 => normalized[2] = normalized[1]

C17_Witness ==
  /\ Len(normalized) = 2
  /\ HasLeadingOrTrailingSpace(raw)
  /\ \E i \in 1..(Len(raw) - 1) : raw[i] = "\n" /\ IsSpace(raw[i + 1])
  /\ \E i \in 1..Len(raw) : raw[i] = "\""
  /\ normalized[1] # raw
  /\ normalized[1] # <<>>

(***************************************************************************)
(* Vocabulary of the claims about process                                  *)
(***************************************************************************)
ProcessDone == call.pc = "done"
ProcessReturned == ProcessDone /\ call.outcome.outcome = "returned"
Items == call.outcome.value.extracted_items
Given == call.input.messages

TextOf(m) == Tokenize(m.text.v)
IsBlank(m) == WordsOf(TextOf(m)) = <<>>

OtherFieldsValid(m) ==
  /\ Truthy(m.chat_id) /\ TypeofString(m.chat_id)
  /\ Truthy(m.sender_id) /\ TypeofString(m.sender_id)
  /\ isValidTimestamp(m.timestamp)

\* the item carries the identity of the message and its processed text
DerivedFrom(item, m) ==
  /\ item.chat_id = m.chat_id.v
  /\ item.sender_id = m.sender_id.v
  /\ item.timestamp = m.timestamp.v
  /\ item.content = extractContent(TextOf(m))

\* C19: process, given a batch of messages with valid fields of which one has
\* an empty or whitespace-only text, completes without raising and emits no
\* item for that message.
C19_BlankMessageInBatch ==
  (/\ ProcessDone
   /\ \A i \in 1..Len(Given) : OtherFieldsValid(Given[i])
   /\ \E i \in 1..Len(Given) : IsBlank(Given[i])) =>
    /\ ProcessReturned
    /\ \A i \in 1..Len(Given) :
         IsBlank(Given[i]) => \A k \in 1..Len(Items) : ~DerivedFrom(Items[k], Given[i])

\* no pattern of the homework, schedule, announcement, urgency and date
\* tables matches the text, nor any other term of the scores
NoPatternMatches(t) ==
  /\ calculateHomeworkScore(t) = Tenths(0)
  /\ calculateScheduleChangeScore(t) = Tenths(0)
  /\ calculateAnnouncementScore(t, Tenths(0)) = Tenths(0)
  /\ ~TestRelativeDate(t) /\ ~TestNumericDate(t) /\ ~TestExclamation(t)

\* C20: with the default minConfidence 0.5, process emits no item for a
\* message with words none of which matches a homework, schedule-change,
\* announcement, urgency or date pattern, whatever its ratio of non-stopwords.
C20_NoPatternNoItem ==
  (ProcessReturned /\ summarizer.options.minConfidence = Tenths(5)) =>
    \A i \in 1..Len(Given) :
      (~IsBlank(Given[i]) /\ NoPatternMatches(extractContent(TextOf(Given[i])))) =>
        \A k \in 1..Len(Items) : ~DerivedFrom(Items[k], Given[i])

(***************************************************************************)
(* Counters of the filter and contents of its cache                        *)
(***************************************************************************)
\* C26: for every filter call that returns, totalProcessed is the sum of
\* filteredBySubscription, filteredByTimePeriod, duplicatesRemoved and
\* finalCount, totalProcessed is the length of the input and finalCount is
\* the length of the returned list.
C26_CounterConservation ==
  FilterReturned =>
    /\ Stats.totalProcessed = Stats.filteredBySubscription + Stats.filteredByTimePeriod
                                + Stats.duplicatesRemoved + Stats.finalCount
    /\ Stats.totalProcessed = Len(input.messages)
    /\ Stats.finalCount = Len(Output)

C26_Witness ==
  /\ FilterReturned
  /\ Stats.filteredBySubscription > 0
  /\ Stats.duplicatesRemoved > 0
  /\ Stats.finalCount > 0

Min(a, b) == IF a <= b THEN a ELSE b

\* C28: a filter call that returns on an empty cache of capacity C leaves in
\* the cache the keys of the first min(C, finalCount) returned messages, in
\* their order, and nothing else; with enableCache false the cache stays
\* empty through every sequence of calls.
C28_CacheAfterOneCall ==
  [][/\ (options.enableCache /\ cache = <<>> /\ result'.op = "filter"
          /\ result'.outcome = "returned") =>
         cache' = [k \in 1..Min(options.cacheSize, result'.value.stats.finalCount) |->
                     KeyOf(result'.value.messages[k])]
     /\ ~options.enableCache => cache' = <<>>]_vars

C28_Witness ==
  /\ FilterReturned
  /\ options.enableCache /\ options.cacheSize = 1
  /\ Stats.finalCount = 2
  /\ Stats.filteredBySubscription + Stats.filteredByTimePeriod = 0
  /\ cache = <<KeyOf(Output[1])>>


(***************************************************************************)
(* createScheduleChangeItem and parseRelativeDate                          *)
(***************************************************************************)
ScheduleItem == GaveItem /\ ItemType = "schedule_change"
Item == classified.value.item
Dates == extractDates(ProcessedText)
IsSet(field) == field \in DOMAIN Item

\* C29: in a schedule_change item original_time is set exactly when the
\* change is a time_change and at least two dates were extracted, and then
\* original_time is the first date and new_time the second; otherwise, with
\* at least one date, new_time is the first date; with no date neither is
\* set; new_location is set only in a location_change.
C29_ScheduleChangeTimes ==
  ScheduleItem =>
    /\ IsSet("original_time") <=> (Item.change_type = "time_change" /\ Len(Dates) >= 2)
    /\ IsSet("original_time") =>
          /\ Item.original_time = Dates[1]
          /\ IsSet("new_time") /\ Item.new_time = Dates[2]
    /\ (~IsSet("original_time") /\ Len(Dates) >= 1) =>
          IsSet("new_time") /\ Item.new_time = Dates[1]
    /\ Len(Dates) = 0 => ~IsSet("original_time") /\ ~IsSet("new_time")
    /\ IsSet("new_location") => Item.change_type = "location_change"

\* a time change with two different dates
C29_Witness ==
  /\ ScheduleItem
  /\ Item.change_type = "time_change"
  /\ IsSet("original_time") /\ IsSet("new_time")
  /\ Item.original_time = 358 /\ Item.new_time = 359

\* a cancellation with two dates, and a location change
C29_WitnessOtherChange ==
  /\ ScheduleItem
  /\ Len(Dates) >= 2
  /\ \/ Item.change_type = "cancellation" /\ IsSet("new_time") /\ ~IsSet("original_time")
     \/ Item.change_type = "location_change" /\ IsSet("new_location")

ParsedThisWeek == parsed.called /\ parsed.text = <<"this", "week">>
Weekday == getDay(now)

\* C30: on every weekday of now, 'this week' resolves to
\* now + ((5 - weekday(now) + 7) mod 7) days, which is a Friday not earlier
\* than now, and is now itself when now is a Friday or later in the week.
C30_ThisWeekIsFriday ==
  ParsedThisWeek =>
    /\ parsed.value = <<now + ((5 - Weekday + 7) % 7)>>
    /\ getDay(parsed.value[1]) = 5
    /\ parsed.value[1] >= now
    /\ Weekday >= 5 => parsed.value[1] = now

\* the part of C30 that holds on every day: the formula, a Friday, not
\* earlier than now, and now itself on a Friday
C30_UpcomingFriday ==
  ParsedThisWeek =>
    /\ parsed.value = <<now + ((5 - Weekday + 7) % 7)>>
    /\ getDay(parsed.value[1]) = 5
    /\ parsed.value[1] >= now
    /\ Weekday = 5 => parsed.value[1] = now

\* on a Saturday the result is the Friday six days later
C30_Saturday == ParsedThisWeek /\ Weekday = 6 /\ parsed.value = <<now + 6>>

(***************************************************************************)
(* The output and the statistics of SchoolChatSummarizer.process           *)
(***************************************************************************)
InScopeOf(m, in) ==
  /\ m.chat_id.v \in Range(in.subscribed_chats)
  /\ DateGetTime(in.period.start.v) <= DateGetTime(m.timestamp.v)
  /\ DateGetTime(m.timestamp.v) < DateGetTime(in.period.end.v)

\* the classification result that became the item
ResultOf(item) ==
  {r \in Range(call.classifiedItems) :
     /\ r.item.type = item.type
     /\ r.item.chat_id = item.chat_id
     /\ r.item.sender_id = item.sender_id
     /\ toISOString(r.item.timestamp) = item.timestamp
     /\ r.item.content = item.content}

\* C21: every item of a resolved process call derives from an input message
\* of a subscribed chat with a timestamp in [start, end), has that message's
\* chat_id, sender_id and timestamp string, and a confidence of at least
\* minConfidence; messages that are duplicates of each other yield at most
\* one item.
C21_ItemsFromInScopeMessages ==
  ProcessReturned =>
    /\ \A i \in 1..Len(Items) :
         /\ \E j \in 1..Len(Given) :
              InScopeOf(Given[j], call.input) /\ DerivedFrom(Items[i], Given[j])
         /\ ResultOf(Items[i]) # {}
         /\ \A r \in ResultOf(Items[i]) :
              ~Less(r.confidence, summarizer.options.minConfidence)
    /\ \A j \in 1..Len(Given) :
         Cardinality({i \in 1..Len(Items) : DerivedFrom(Items[i], Given[j])}) <= 1

\* two copies of a message in scope give one item, and a message at
\* period.end gives none
C21_Witness ==
  /\ ProcessReturned
  /\ Len(Given) = 2 /\ Given[1] = Given[2] /\ InScopeOf(Given[1], call.input)
  /\ Len(Items) = 1

C21_WitnessOutOfScope ==
  /\ ProcessReturned
  /\ Len(Given) = 2 /\ InScopeOf(Given[1], call.input)
  /\ Given[2].timestamp.v = call.input.period.end.v
  /\ Given[2].chat_id = Given[1].chat_id
  /\ Len(Items) = 1

TimeOf(item) == DateGetTime(item.timestamp)

\* the place in the input of the first message an item derives from
FirstIndex(item) ==
  LET S == {j \in 1..Len(Given) : DerivedFrom(item, Given[j])}
  IN IF S = {} THEN 0 ELSE CHOOSE j \in S : \A l \in S : j <= l

\* C23: with sortByTimestamp the extracted_items are in non-decreasing order
\* of timestamp; without it they are in the order in which their messages
\* appear in the input.
C23_ItemOrder ==
  ProcessReturned =>
    \A i, k \in 1..Len(Items) :
      i < k =>
        IF summarizer.options.sortByTimestamp
        THEN TimeOf(Items[i]) <= TimeOf(Items[k])
        ELSE 0 < FirstIndex(Items[i]) /\ FirstIndex(Items[i]) < FirstIndex(Items[k])

\* two items whose messages came later first: sorted, and left in place
C23_Witness ==
  /\ ProcessReturned
  /\ summarizer.options.sortByTimestamp
  /\ Len(Given) = 2 /\ Len(Items) = 2
  /\ DateGetTime(Given[1].timestamp.v) > DateGetTime(Given[2].timestamp.v)
  /\ DerivedFrom(Items[1], Given[2]) /\ DerivedFrom(Items[2], Given[1])

C23_WitnessUnsorted ==
  /\ ProcessReturned
  /\ ~summarizer.options.sortByTimestamp
  /\ Len(Given) = 2 /\ Len(Items) = 2
  /\ TimeOf(Items[1]) > TimeOf(Items[2])
  /\ DerivedFrom(Items[1], Given[1]) /\ DerivedFrom(Items[2], Given[2])

ProcessThrown == ProcessDone /\ call.outcome.outcome = "thrown"
OrchestratorError == Summarizer_validateInput(call.input)
FilterRejected == OrchestratorError = "" /\ call.filtered.outcome = "thrown"
FailedPrefix == "Failed to process messages: "

C24_WitnessOrchestrator ==
  /\ ProcessThrown
  /\ call.outcome.error =
       "Failed to process messages: Invalid message at index 1: missing required fields"

\* getStats, without processingTime
Counters(stats) ==
  [totalMessages |-> stats.totalMessages,
   filteredMessages |-> stats.filteredMessages,
   classifiedMessages |-> stats.classifiedMessages,
   itemsByType |-> stats.itemsByType]

ItemTypes == {"homework", "schedule_change", "announcement"}
CountByType(items) ==
  [t \in ItemTypes |-> Cardinality({i \in 1..Len(items) : items[i].type = t})]
SumByType(itemsByType) ==
  itemsByType.homework + itemsByType.schedule_change + itemsByType.announcement

Settled(c) == calls[c].pc = "done"
Resolved(c) == Settled(c) /\ calls[c].outcome.outcome = "returned"
FailedValidation(c) == Settled(c) /\ Summarizer_validateInput(calls[c].input) # ""
RejectedByFilter(c) ==
  /\ Settled(c)
  /\ Summarizer_validateInput(calls[c].input) = ""
  /\ calls[c].filtered.outcome = "thrown"

\* no call started while another was in flight
Sequential == \A c \in CallIds : ~calls[c].overlapped

\* the call settled and no other call has settled or started since
LastSettled(c) ==
  /\ Settled(c)
  /\ \A o \in CallIds \ {c} : calls[o].pc = "called" \/ (Settled(o) /\ o < c)

\* the counts a call reports when it runs alone on a new summarizer
AloneCounters(c) ==
  IF Summarizer_validateInput(calls[c].input) # "" THEN Counters(ZeroStats)
  ELSE IF calls[c].filtered.outcome = "thrown"
    THEN Counters([ZeroStats EXCEPT !.totalMessages = Len(calls[c].input.messages)])
  ELSE [totalMessages |-> Len(calls[c].input.messages),
        filteredMessages |-> Len(calls[c].filtered.value.messages),
        classifiedMessages |-> Len(calls[c].classifiedItems),
        itemsByType |-> CountByType([i \in 1..Len(calls[c].classifiedItems) |->
                                       calls[c].classifiedItems[i].item])]

\* C22: after a process call that resolves, getStats reports the statistics
\* of that call only, whatever earlier sequential calls processed:
\* totalMessages is the number of input messages, filteredMessages the number
\* that survived the filter, classifiedMessages the number of extracted_items
\* and the sum of itemsByType, so classifiedMessages <= filteredMessages <=
\* totalMessages.
C22_StatsOfThisCall ==
  \A c \in CallIds :
    (Sequential /\ LastSettled(c) /\ Resolved(c)) =>
       LET stats == summarizer.stats
           items == calls[c].outcome.value.extracted_items
       IN /\ stats.totalMessages = Len(calls[c].input.messages)
          /\ stats.filteredMessages = Len(calls[c].filtered.value.messages)
          /\ stats.classifiedMessages = Len(items)
          /\ stats.itemsByType = CountByType(items)
          /\ stats.classifiedMessages = SumByType(stats.itemsByType)
          /\ stats.classifiedMessages <= stats.filteredMessages
          /\ stats.filteredMessages <= stats.totalMessages

\* a second call that resolves with fewer messages and another type of item
\* than the first
C22_Witness ==
  /\ Sequential /\ Resolved(1) /\ Resolved(2)
  /\ Len(calls[1].outcome.value.extracted_items) = 2
  /\ Len(calls[2].input.messages) = 2
  /\ summarizer.stats.filteredMessages = 1
  /\ summarizer.stats.itemsByType =
       [homework |-> 1, schedule_change |-> 0, announcement |-> 0]

\* C25: when two process calls overlap, then after both have settled
\* getStats is the statistics of one of the two calls: classifiedMessages is
\* the sum of itemsByType and the counts are those the call reports when it
\* runs alone.
C25_OverlapStatsOfOneCall ==
  (Settled(1) /\ Settled(2) /\ ~Sequential) =>
     /\ summarizer.stats.classifiedMessages = SumByType(summarizer.stats.itemsByType)
     /\ \E c \in CallIds : Counters(summarizer.stats) = AloneCounters(c)

\* two overlapping calls of one item each leave two items counted by type
\* and one classified message
C25_Mixed ==
  /\ Resolved(1) /\ Resolved(2) /\ ~Sequential
  /\ summarizer.stats.classifiedMessages = 1
  /\ SumByType(summarizer.stats.itemsByType) = 2

C27_WitnessFilter ==
  /\ Sequential /\ Resolved(1) /\ RejectedByFilter(2)
  /\ Len(calls[1].outcome.value.extracted_items) >= 1
  /\ Len(calls[2].input.messages) = 2
  /\ summarizer.stats.totalMessages = 2
  /\ summarizer.stats.classifiedMessages = 0
====
